---- MODULE Spec2Model ----
(***************************************************************************)
(* Model of roam_migration.py (RoamMediaMigrator): the upload coordinator  *)
(* (process_files / upload_file), the progress ledger (load_progress /     *)
(* save_progress), the filename matcher (build_file_cache /                *)
(* find_file_for_firebase_id), the target-name policy (clean_filename) and *)
(* the document rewriter (update_roam_json).                               *)
(*                                                                         *)
(* Strings are sequences of one-character strings, so that the string      *)
(* operations of the code (replace, strip, stem, suffix) are computed.     *)
(***************************************************************************)
EXTENDS Integers, Sequences, FiniteSets, TLC

(***************************************************************************)
(* Bounds of the model                                                     *)
(***************************************************************************)
\* longest directory listing explored
MaxFiles == 3
\* largest BATCH_SIZE explored (BATCH_SIZE ranges over 1..MaxBatch)
MaxBatch == 2
\* longest file name explored by the target-name specification
MaxNameLen == 4

(***************************************************************************)
(* Program constants                                                       *)
(***************************************************************************)
\* DEFAULT_CONFIG['MAX_RETRIES']
MAX_RETRIES == 3

(***************************************************************************)
(* String helpers (Python str / pathlib semantics on character sequences)  *)
(***************************************************************************)
\* `ch in s`
Contains(s, ch) == \E i \in 1..Len(s) : s[i] = ch

\* s.startswith(p)
StartsWith(s, p) == Len(p) <= Len(s) /\ SubSeq(s, 1, Len(p)) = p

\* s.endswith(p)
EndsWith(s, p) == Len(p) <= Len(s) /\ SubSeq(s, Len(s) - Len(p) + 1, Len(s)) = p

\* s.replace(old, new): every non-overlapping occurrence, left to right
RECURSIVE Replace(_, _, _)
Replace(s, old, new) ==
    IF Len(s) < Len(old) THEN s
    ELSE IF SubSeq(s, 1, Len(old)) = old
         THEN new \o Replace(SubSeq(s, Len(old) + 1, Len(s)), old, new)
         ELSE <<s[1]>> \o Replace(Tail(s), old, new)

\* name.rfind('.') as a 1-based position, 0 when there is no dot
RFindDot(name) ==
    IF Contains(name, ".")
    THEN CHOOSE i \in 1..Len(name) :
            name[i] = "." /\ \A j \in (i + 1)..Len(name) : name[j] # "."
    ELSE 0

\* pathlib: PurePath.suffix (empty for a leading or a trailing dot)
Suffix(name) ==
    LET i == RFindDot(name)
    IN IF 1 < i /\ i < Len(name) THEN SubSeq(name, i, Len(name)) ELSE <<>>

\* pathlib: PurePath.stem
Stem(name) ==
    LET i == RFindDot(name)
    IN IF 1 < i /\ i < Len(name) THEN SubSeq(name, 1, i - 1) ELSE name

\* re.sub(r'_+', '_', s)
RECURSIVE CollapseUnderscores(_)
CollapseUnderscores(s) ==
    IF Len(s) = 0 THEN s
    ELSE IF Len(s) >= 2 /\ s[1] = "_" /\ s[2] = "_"
         THEN CollapseUnderscores(Tail(s))
         ELSE <<s[1]>> \o CollapseUnderscores(Tail(s))

\* s.lstrip('_')
RECURSIVE LStripUnderscore(_)
LStripUnderscore(s) ==
    IF Len(s) > 0 /\ s[1] = "_" THEN LStripUnderscore(Tail(s)) ELSE s

\* s.rstrip('_')
RECURSIVE RStripUnderscore(_)
RStripUnderscore(s) ==
    IF Len(s) > 0 /\ s[Len(s)] = "_"
    THEN RStripUnderscore(SubSeq(s, 1, Len(s) - 1))
    ELSE s

\* s.strip('_')
StripUnderscore(s) == RStripUnderscore(LStripUnderscore(s))

\* dict assignment d[k] = v
Put(d, k, v) == [x \in (DOMAIN d) \cup {k} |-> IF x = k THEN v ELSE d[x]]

\* the empty dict
EmptyMap == [x \in {} |-> x]

(***************************************************************************)
(* clean_filename and the target-name policy of process_files              *)
(***************************************************************************)
\* clean_filename, lines 165-173: the cleaning of the stem
CleanStem(stem) ==
    LET s1 == Replace(stem, <<" ">>, <<"_">>)
        s2 == Replace(Replace(s1, <<"(">>, <<>>), <<")">>, <<>>)
        s3 == Replace(Replace(s2, <<"[">>, <<>>), <<"]">>, <<>>)
        s4 == Replace(Replace(s3, <<",">>, <<"_">>), <<";">>, <<"_">>)
        s5 == Replace(s4, <<"&">>, <<"a", "n", "d">>)
        s6 == Replace(s5, <<"#">>, <<>>)
    IN StripUnderscore(CollapseUnderscores(s6))

\* clean_filename(filename) under config CLEAN_FILENAMES = clean
clean_filename(filename, clean) ==
    IF ~clean THEN filename
    ELSE CleanStem(Stem(filename)) \o Suffix(filename)

\* process_files, line 307: the test that triggers cleaning
NeedsCleaning(original_name) ==
    \/ Contains(original_name, " ")
    \/ Contains(original_name, "(")
    \/ Contains(original_name, ")")

\* hashlib.md5(original_name.encode()).hexdigest()[:12], kept symbolic:
\* a digest is a function of the name only
Md5Hex12(original_name) == <<"md5:">> \o original_name

\* process_files, lines 304-318: the target name of a file
TargetName(original_name, keep, clean) ==
    IF keep
    THEN IF NeedsCleaning(original_name)
         THEN clean_filename(original_name, clean)
         ELSE original_name
    ELSE Md5Hex12(original_name) \o Suffix(original_name)

(***************************************************************************)
(* Filename matcher: build_file_cache and find_file_for_firebase_id        *)
(***************************************************************************)
UpperChars == <<"A", "B", "C", "D", "E", "F", "G", "H", "I", "J", "K", "L", "M",
                "N", "O", "P", "Q", "R", "S", "T", "U", "V", "W", "X", "Y", "Z">>
LowerChars == <<"a", "b", "c", "d", "e", "f", "g", "h", "i", "j", "k", "l", "m",
                "n", "o", "p", "q", "r", "s", "t", "u", "v", "w", "x", "y", "z">>

\* str.lower() on one character
LowerChar(c) ==
    IF \E i \in 1..Len(UpperChars) : UpperChars[i] = c
    THEN LowerChars[CHOOSE i \in 1..Len(UpperChars) : UpperChars[i] = c]
    ELSE c

\* str.lower()
Lower(s) == [i \in 1..Len(s) |-> LowerChar(s[i])]

\* the regular expression class \d
IsDigit(c) == c \in {"0", "1", "2", "3", "4", "5", "6", "7", "8", "9"}

\* the value find_file_for_firebase_id returns when nothing matches (None)
NoFile == <<>>

\* the cache is a Python dict: a list of (key, path) in insertion order
CacheHas(cache, k) == \E i \in 1..Len(cache) : cache[i].key = k

CacheGet(cache, k) == cache[CHOOSE i \in 1..Len(cache) : cache[i].key = k].path

\* cache[k] = path: an existing key keeps its position
CacheSet(cache, k, path) ==
    IF CacheHas(cache, k)
    THEN [i \in 1..Len(cache) |->
            IF cache[i].key = k THEN [key |-> k, path |-> path] ELSE cache[i]]
    ELSE Append(cache, [key |-> k, path |-> path])

\* cache[k] = path only `if k not in cache`
CacheSetDefault(cache, k, path) ==
    IF CacheHas(cache, k) THEN cache ELSE CacheSet(cache, k, path)

\* stem.split('-')[0]
BeforeFirstDash(stem) ==
    LET i == CHOOSE k \in 1..Len(stem) :
                stem[k] = "-" /\ \A j \in 1..(k - 1) : stem[j] # "-"
    IN SubSeq(stem, 1, i - 1)

DashImage == <<"-", "i", "m", "a", "g", "e">>

\* build_file_cache, lines 129-150: the keys one file registers
CacheAddFile(cache, name) ==
    LET stem == Stem(name)
        c1 == CacheSet(cache, name, name)
        c2 == CacheSet(c1, stem, name)
        c3 == IF Contains(stem, "-")
              THEN CacheSetDefault(c2, BeforeFirstDash(stem), name)
              ELSE c2
        c4 == IF Contains(stem, "-") /\ EndsWith(stem, DashImage)
              THEN CacheSetDefault(c3, SubSeq(stem, 1, Len(stem) - 6), name)
              ELSE c3
    IN c4

\* build_file_cache over the directory listing, in enumeration order
RECURSIVE BuildCacheFrom(_, _)
BuildCacheFrom(cache, listing) ==
    IF listing = <<>> THEN cache
    ELSE BuildCacheFrom(CacheAddFile(cache, Head(listing)), Tail(listing))

build_file_cache(listing) == BuildCacheFrom(<<>>, listing)

\* re: ^{firebase_id}-\d+{extension}$ with re.IGNORECASE, against path.name
MatchesNumericSuffix(name, firebase_id, extension) ==
    LET n == Lower(name)
        pre == Lower(firebase_id) \o <<"-">>
        ext == Lower(extension)
        lo == Len(pre) + 1
        hi == Len(n) - Len(ext)
    IN /\ StartsWith(n, pre)
       /\ EndsWith(n, ext)
       /\ lo <= hi
       /\ \A i \in lo..hi : IsDigit(n[i])

\* `for name, path in cache.items(): if <test>: return path`, the test of
\* each entry given as a list of booleans; NoFile when the loop falls through
FirstPath(cache, hits) ==
    IF \E i \in 1..Len(cache) : hits[i]
    THEN cache[CHOOSE i \in 1..Len(cache) :
                  hits[i] /\ \A j \in 1..(i - 1) : ~hits[j]].path
    ELSE NoFile

\* a variant of DirectLookup that accepts a hit without looking at the
\* extension of the file
DirectLookup_AnyExtension(cache, firebase_id, extension) ==
    LET lookup_keys == << firebase_id,
                          firebase_id \o DashImage,
                          firebase_id \o extension,
                          firebase_id \o DashImage \o extension >>
        Hit(k) == CacheHas(cache, lookup_keys[k])
    IN IF \E k \in 1..4 : Hit(k)
       THEN CacheGet(cache, lookup_keys[CHOOSE k \in 1..4 :
                                Hit(k) /\ \A j \in 1..(k - 1) : ~Hit(j)])
       ELSE NoFile

\* find_file_for_firebase_id, lines 183-195: the direct lookups
DirectLookup(cache, firebase_id, extension) ==
    LET lookup_keys == << firebase_id,
                          firebase_id \o DashImage,
                          firebase_id \o extension,
                          firebase_id \o DashImage \o extension >>
        Hit(k) == /\ CacheHas(cache, lookup_keys[k])
                  /\ Lower(Suffix(CacheGet(cache, lookup_keys[k]))) = Lower(extension)
    IN IF \E k \in 1..4 : Hit(k)
       THEN CacheGet(cache, lookup_keys[CHOOSE k \in 1..4 :
                                Hit(k) /\ \A j \in 1..(k - 1) : ~Hit(j)])
       ELSE NoFile

\* find_file_for_firebase_id, lines 177-208
find_file_for_firebase_id(cache, firebase_id, extension) ==
    LET direct == DirectLookup(cache, firebase_id, extension)
        numeric == FirstPath(cache, [i \in 1..Len(cache) |->
                        MatchesNumericSuffix(cache[i].path, firebase_id, extension)])
        prefix == FirstPath(cache, [i \in 1..Len(cache) |->
                        /\ StartsWith(cache[i].key, firebase_id)
                        /\ Lower(Suffix(cache[i].path)) = Lower(extension)])
    IN IF direct # NoFile THEN direct
       ELSE IF numeric # NoFile THEN numeric
       ELSE prefix

(***************************************************************************)
(* URLs and reference resolution                                           *)
(***************************************************************************)
\* config['PUBLIC_URL'].rstrip('/'), one opaque token
PublicBase == <<"https://pub.example">>

\* a variant of PublicUrlOf that joins base and name without the "/"
PublicUrlOf_NoSlash(target_name) == PublicBase \o target_name

\* upload_file, line 256: f"{self.public_url}/{target_name}"
PublicUrlOf(target_name) == PublicBase \o <<"/">> \o target_name

\* replacement_url = None
NoUrl == <<>>

\* update_roam_json.process_block, lines 401-414: the replacement URL of a
\* reference with identifier firebase_id and extension
ResolveUrl(firebase_id, extension, mapping_, progress_, cache) ==
    IF firebase_id \in DOMAIN mapping_
    THEN mapping_[firebase_id].public_url
    ELSE LET local_file == find_file_for_firebase_id(cache, firebase_id, extension)
         IN IF local_file # NoFile /\ local_file \in DOMAIN progress_.uploaded_files
            THEN PublicBase \o <<"/">> \o progress_.uploaded_files[local_file]
            ELSE NoUrl

(***************************************************************************)
(* State                                                                   *)
(***************************************************************************)
VARIABLES
    files,          \* the directory listing of FILES_FOLDER, in enumeration order
    batchSize,      \* config['BATCH_SIZE']
    keepNames,      \* config['KEEP_ORIGINAL_NAMES']
    cleanNames,     \* config['CLEAN_FILENAMES']
    disk,           \* the progress file on durable storage
    store,          \* the object store: (original name, key) of every put that succeeded
    progress,       \* self.progress
    mapping,        \* self.mapping
    local_files_cache, \* self.local_files_cache
    stats,          \* self.stats (upload counters)
    idx,            \* process_files: 1-based position of the file being handled
    attempt,        \* upload_file: the retry loop's counter
    target_name,    \* process_files: target name of the file being handled
    pc,             \* where the process is
    loaded,         \* uploaded_files of the ledger this run loaded at its start
    putsThisFile,   \* requests.put calls issued for the file being handled
    putFiles,       \* files for which this run issued a put
    handled,        \* how many loop iterations this run spent on each file
    saveLog,        \* positions idx at which this run saved a checkpoint
    resolved,       \* the last reference the rewriter resolved, and its URL
    data,           \* update_roam_json: the document tree, a table of nodes
    original,       \* the document tree as it was loaded
    walk,           \* process_block calls still to be made in the current page
    page,           \* update_roam_json: number of pages entered so far
    page_modified,  \* update_roam_json: page_modified of the current page
    pages_modified, \* update_roam_json: pages_modified
    links,          \* self.stats: links_updated, links_not_found
    visits,         \* how many times process_block ran on each node
    local_file      \* process_block: what find_file_for_firebase_id last returned

vars == << files, batchSize, keepNames, cleanNames, disk, store, progress, mapping,
           local_files_cache,
           stats, idx, attempt, target_name, pc, loaded, putsThisFile, putFiles,
           handled, saveLog, resolved, data, original, walk, page, page_modified,
           pages_modified, links, visits, local_file >>

\* the state of the document rewriter
rewriter == << data, original, walk, page, page_modified, pages_modified, links,
               visits, local_file >>

\* the state of the upload coordinator and of the ledger
uploader == << disk, store, progress, mapping, local_files_cache, stats, idx,
               attempt, target_name, loaded, putsThisFile, putFiles, handled,
               saveLog, resolved >>

config == << files, batchSize, keepNames, cleanNames >>

(***************************************************************************)
(* Inputs                                                                  *)
(***************************************************************************)
F_abc == <<"a", "b", "c", ".", "p", "n", "g">>
F_abcImage == <<"a", "b", "c", "-", "i", "m", "a", "g", "e", ".", "p", "n", "g">>
F_xyz1 == <<"x", "y", "z", "-", "1", ".", "p", "d", "f">>

FileUniverse == {F_abc, F_abcImage, F_xyz1}

\* the naming policies explored: (KEEP_ORIGINAL_NAMES, CLEAN_FILENAMES)
Policies == {<<TRUE, TRUE>>, <<FALSE, TRUE>>}

IsInjective(s) == \A i, j \in DOMAIN s : i # j => s[i] # s[j]

\* directory listings: distinct names, any enumeration order
FileLists ==
    {s \in UNION {[1..n -> FileUniverse] : n \in 1..MaxFiles} : IsInjective(s)}

\* references the rewriter is asked to resolve: (identifier, extension)
Refs == { <<<<"a", "b", "c">>, <<".", "p", "n", "g">>>>,
          <<<<"x", "y", "z">>, <<".", "p", "d", "f">>>>,
          <<<<"x", "y", "z">>, <<".", "P", "D", "F">>>>,
          <<<<"q">>, <<".", "p", "n", "g">>>> }

\* load_progress, line 115: the default ledger
EmptyLedger == [uploaded_files |-> EmptyMap, mapping |-> EmptyMap]

\* self.stats as set by __init__, lines 76-83
ZeroStats == [total_files |-> 0, uploaded |-> 0, skipped |-> 0, failed |-> 0]

\* self.stats as set by __init__, lines 81-82
ZeroLinks == [links_updated |-> 0, links_not_found |-> 0]

NoRef == [id |-> <<>>, ext |-> <<>>, url |-> NoUrl, done |-> FALSE]

Init ==
    /\ files \in FileLists
    /\ batchSize \in 1..MaxBatch
    /\ \E p \in Policies : keepNames = p[1] /\ cleanNames = p[2]
    /\ disk = [st |-> "absent", ledger |-> EmptyLedger]
    /\ store = {}
    /\ progress = EmptyLedger
    /\ mapping = EmptyMap
    /\ local_files_cache = <<>>
    /\ stats = ZeroStats
    /\ idx = 0
    /\ attempt = 0
    /\ target_name = <<>>
    /\ pc = "start"
    /\ loaded = EmptyMap
    /\ putsThisFile = 0
    /\ putFiles = {}
    /\ handled = [f \in {} |-> 0]
    /\ saveLog = {}
    /\ resolved = NoRef
    /\ data = <<>>
    /\ original = <<>>
    /\ walk = <<>>
    /\ page = 0
    /\ page_modified = FALSE
    /\ pages_modified = 0
    /\ links = ZeroLinks
    /\ visits = <<>>
    /\ local_file = NoFile

(***************************************************************************)
(* Progress ledger                                                         *)
(***************************************************************************)
\* load_progress, lines 109-115, on a progress file that parses
load_progress(d) == IF d.st = "absent" THEN EmptyLedger ELSE d.ledger

\* save_progress, line 119
WithMapping(progress_, mapping_) == [progress_ EXCEPT !.mapping = mapping_]

\* save_progress, line 120: open(progress_file, 'w') truncates the file
TruncatedFile == [st |-> "partial", ledger |-> EmptyLedger]

\* save_progress, line 121: json.dump has written the whole ledger
WrittenFile(progress_) == [st |-> "complete", ledger |-> progress_]

(***************************************************************************)
(* Upload coordinator                                                      *)
(***************************************************************************)
\* a variant of AlreadyUploaded that consults the ledger's mapping keys
AlreadyUploaded_ByMappingKey(original_name, progress_) ==
    original_name \in DOMAIN progress_.mapping

\* process_files, line 298
AlreadyUploaded(original_name, progress_) ==
    original_name \in DOMAIN progress_.uploaded_files

\* process_files, line 327: file_path.stem.replace('-image', '')
BaseId(original_name) == Replace(Stem(original_name), DashImage, <<>>)

\* process_files, lines 328-336: the record stored under both keys
RecordMapping(mapping_, original_name, target, url) ==
    LET rec == [original_name |-> original_name,
                target_name |-> target,
                public_url |-> url]
        m1 == Put(mapping_, BaseId(original_name), rec)
    IN Put(m1, Stem(original_name), m1[BaseId(original_name)])

\* a variant of MarkUploaded that records the original name as the target
MarkUploaded_OriginalName(progress_, original_name, target) ==
    [progress_ EXCEPT !.uploaded_files = Put(@, original_name, original_name)]

\* process_files, line 339
MarkUploaded(progress_, original_name, target) ==
    [progress_ EXCEPT !.uploaded_files = Put(@, original_name, target)]

\* a variant of RetryAgain that is off by one
RetryAgain_OffByOne(attempt_) == attempt_ < MAX_RETRIES

\* upload_file, lines 258 and 265: is a failed attempt followed by another
RetryAgain(attempt_) == attempt_ < MAX_RETRIES - 1

\* process_files, line 347
CheckpointDue(idx_, batch) == idx_ % batch = 0

\* RoamMediaMigrator.__init__ (lines 72-83) with load_progress, and run up to
\* build_file_cache (line 514), in a fresh process
Construct ==
    /\ pc \in {"start", "done", "interrupted", "crashed"}
    /\ IF disk.st = "partial"
       THEN \* json.load raises; main reports the exception and exits 1
            /\ pc' = "crashed"
            /\ progress' = EmptyLedger
            /\ loaded' = EmptyMap
       ELSE /\ pc' = "loop"
            /\ progress' = load_progress(disk)
            /\ loaded' = load_progress(disk).uploaded_files
    /\ mapping' = EmptyMap
    /\ local_files_cache' = IF disk.st = "partial" THEN <<>> ELSE build_file_cache(files)
    /\ stats' = [ZeroStats EXCEPT !.total_files = Len(files)]
    /\ idx' = 0
    /\ attempt' = 0
    /\ target_name' = <<>>
    /\ putsThisFile' = 0
    /\ putFiles' = {}
    /\ handled' = [f \in {} |-> 0]
    /\ saveLog' = {}
    /\ resolved' = NoRef
    /\ UNCHANGED << config, rewriter, disk, store >>

Count(h, f) == IF f \in DOMAIN h THEN h[f] ELSE 0

\* process_files, lines 294-302: the next file is already in uploaded_files
SkipFile ==
    /\ pc = "loop"
    /\ idx < Len(files)
    /\ AlreadyUploaded(files[idx + 1], progress)
    /\ idx' = idx + 1
    /\ stats' = [stats EXCEPT !.skipped = @ + 1]
    /\ handled' = Put(handled, files[idx + 1], Count(handled, files[idx + 1]) + 1)
    /\ UNCHANGED << config, rewriter, local_files_cache, disk, store, progress,
                    mapping, attempt, target_name, pc,
                    loaded, putsThisFile, putFiles, saveLog, resolved >>

\* process_files, lines 304-321 and upload_file, lines 212-243: the target
\* name is chosen and the file is read
BeginUpload ==
    /\ pc = "loop"
    /\ idx < Len(files)
    /\ ~AlreadyUploaded(files[idx + 1], progress)
    /\ idx' = idx + 1
    /\ target_name' = TargetName(files[idx + 1], keepNames, cleanNames)
    /\ attempt' = 0
    /\ putsThisFile' = 0
    /\ handled' = Put(handled, files[idx + 1], Count(handled, files[idx + 1]) + 1)
    /\ pc' = "upload"
    /\ UNCHANGED << config, rewriter, local_files_cache, disk, store, progress,
                    mapping, stats, loaded, putFiles,
                    saveLog, resolved >>

\* upload_file, lines 248-257 and process_files, lines 323-341: the put
\* returns 200 or 201
PutSucceeds ==
    /\ pc = "upload"
    /\ putsThisFile' = putsThisFile + 1
    /\ putFiles' = putFiles \cup {files[idx]}
    /\ store' = store \cup {<<files[idx], target_name>>}
    /\ stats' = [stats EXCEPT !.uploaded = @ + 1]
    /\ mapping' = RecordMapping(mapping, files[idx], target_name,
                                PublicUrlOf(target_name))
    /\ progress' = MarkUploaded(progress, files[idx], target_name)
    /\ pc' = "checkpoint"
    /\ UNCHANGED << config, rewriter, local_files_cache, disk, idx, attempt,
                    target_name, loaded, handled,
                    saveLog, resolved >>

\* upload_file, lines 258-268 and process_files, lines 342-344: the put
\* returns another status, or raises requests.RequestException
PutFails ==
    /\ pc = "upload"
    /\ putsThisFile' = putsThisFile + 1
    /\ putFiles' = putFiles \cup {files[idx]}
    /\ IF RetryAgain(attempt)
       THEN /\ attempt' = attempt + 1
            /\ UNCHANGED << stats, pc >>
       ELSE /\ stats' = [stats EXCEPT !.failed = @ + 1]
            /\ pc' = "checkpoint"
            /\ UNCHANGED attempt
    /\ UNCHANGED << config, rewriter, local_files_cache, disk, store, progress,
                    mapping, idx, target_name, loaded,
                    handled, saveLog, resolved >>

\* upload_file, lines 212-215 and 270-271: reading the file raises, no put
ReadFails ==
    /\ pc = "upload"
    /\ putsThisFile = 0
    /\ stats' = [stats EXCEPT !.failed = @ + 1]
    /\ pc' = "checkpoint"
    /\ UNCHANGED << config, rewriter, local_files_cache, disk, store, progress,
                    mapping, idx, attempt, target_name,
                    loaded, putsThisFile, putFiles, handled, saveLog, resolved >>

\* process_files, lines 346-348 and save_progress, lines 119-120: the
\* periodic save opens the progress file for writing
Checkpoint ==
    /\ pc = "checkpoint"
    /\ IF CheckpointDue(idx, batchSize)
       THEN /\ progress' = WithMapping(progress, mapping)
            /\ disk' = TruncatedFile
            /\ saveLog' = saveLog \cup {idx}
            /\ pc' = "saving"
       ELSE /\ pc' = "loop"
            /\ UNCHANGED << progress, disk, saveLog >>
    \* the locals of the iteration and of upload_file go out of scope
    /\ attempt' = 0
    /\ target_name' = <<>>
    /\ putsThisFile' = 0
    /\ UNCHANGED << config, rewriter, local_files_cache, store, mapping, stats, idx,
                    loaded, putFiles, handled,
                    resolved >>

\* save_progress, line 121: json.dump completes and the file is closed
CheckpointWritten ==
    /\ pc = "saving"
    /\ disk' = WrittenFile(progress)
    /\ pc' = "loop"
    /\ UNCHANGED << config, rewriter, local_files_cache, store, progress, mapping,
                    stats, idx, attempt, target_name,
                    loaded, putsThisFile, putFiles, handled, saveLog, resolved >>

\* process_files, lines 355-356: the loop is over, the final save opens the file
FinalSave ==
    /\ pc = "loop"
    /\ idx = Len(files)
    /\ progress' = WithMapping(progress, mapping)
    /\ disk' = TruncatedFile
    /\ pc' = "finalsaving"
    /\ UNCHANGED << config, rewriter, local_files_cache, store, mapping, stats, idx,
                    attempt, target_name, loaded,
                    putsThisFile, putFiles, handled, saveLog, resolved >>

\* save_progress, line 121, for the final save; run, lines 519-521
FinalWritten ==
    /\ pc = "finalsaving"
    /\ disk' = WrittenFile(progress)
    /\ pc' = IF stats.uploaded > 0 \/ stats.skipped > 0 THEN "rewrite" ELSE "done"
    /\ UNCHANGED << config, rewriter, local_files_cache, store, progress, mapping,
                    stats, idx, attempt, target_name,
                    loaded, putsThisFile, putFiles, handled, saveLog, resolved >>

\* update_roam_json.process_block, lines 396-414: one reference is resolved
ResolveReference ==
    /\ pc = "rewrite"
    /\ \E r \in Refs :
          resolved' = [id |-> r[1], ext |-> r[2], done |-> TRUE,
                       url |-> ResolveUrl(r[1], r[2], mapping, progress,
                                          local_files_cache)]
    /\ UNCHANGED << config, rewriter, local_files_cache, disk, store, progress,
                    mapping, stats, idx, attempt,
                    target_name, pc, loaded, putsThisFile, putFiles, handled, saveLog >>

\* run, lines 523-533: the run ends
Finish ==
    /\ pc = "rewrite"
    /\ pc' = "done"
    /\ resolved' = NoRef
    /\ UNCHANGED << config, rewriter, local_files_cache, disk, store, progress,
                    mapping, stats, idx, attempt,
                    target_name, loaded, putsThisFile, putFiles, handled, saveLog >>

\* main, lines 603-606: KeyboardInterrupt during process_files, exit 130;
\* the process is gone and with it everything it held in memory
Interrupt ==
    /\ pc \in {"loop", "upload", "checkpoint", "saving", "finalsaving"}
    /\ pc' = "interrupted"
    /\ progress' = EmptyLedger
    /\ mapping' = EmptyMap
    /\ local_files_cache' = <<>>
    /\ stats' = ZeroStats
    /\ idx' = 0
    /\ attempt' = 0
    /\ target_name' = <<>>
    /\ loaded' = EmptyMap
    /\ putsThisFile' = 0
    /\ putFiles' = {}
    /\ handled' = [f \in {} |-> 0]
    /\ saveLog' = {}
    /\ UNCHANGED << config, rewriter, disk, store, resolved >>

Next ==
    \/ Construct
    \/ SkipFile
    \/ BeginUpload
    \/ PutSucceeds
    \/ PutFails
    \/ ReadFails
    \/ Checkpoint
    \/ CheckpointWritten
    \/ FinalSave
    \/ FinalWritten
    \/ ResolveReference
    \/ Finish
    \/ Interrupt

Spec == Init /\ [][Next]_vars

(***************************************************************************)
(* The target-name policy on its own: process_files reaches a file that is *)
(* not in the ledger and chooses its target name (BeginUpload), for every  *)
(* file name up to MaxNameLen characters and every naming policy.          *)
(***************************************************************************)
NameChars == {"a", " ", "(", "[", ",", "&", "_", "."}

\* file names of the listing: not empty, not hidden (lines 280-281)
FileNames ==
    {n \in UNION {[1..k -> NameChars] : k \in 1..MaxNameLen} : n[1] # "."}

InitName ==
    /\ \E n \in FileNames : files = <<n>>
    /\ batchSize = 1
    /\ keepNames \in BOOLEAN
    /\ cleanNames \in BOOLEAN
    /\ disk = [st |-> "absent", ledger |-> EmptyLedger]
    /\ store = {}
    /\ progress = EmptyLedger
    /\ mapping = EmptyMap
    /\ local_files_cache = build_file_cache(files)
    /\ stats = [ZeroStats EXCEPT !.total_files = 1]
    /\ idx = 0
    /\ attempt = 0
    /\ target_name = <<>>
    /\ pc = "loop"
    /\ loaded = EmptyMap
    /\ putsThisFile = 0
    /\ putFiles = {}
    /\ handled = [f \in {} |-> 0]
    /\ saveLog = {}
    /\ resolved = NoRef
    /\ data = <<>>
    /\ original = <<>>
    /\ walk = <<>>
    /\ page = 0
    /\ page_modified = FALSE
    /\ pages_modified = 0
    /\ links = ZeroLinks
    /\ visits = <<>>
    /\ local_file = NoFile

NextName == BeginUpload

SpecName == InitName /\ [][NextName]_vars

(***************************************************************************)
(* Document rewriter: update_roam_json                                     *)
(*                                                                         *)
(* A block's string is a list of tokens: a run of plain text, or one span  *)
(* that has the form of a media reference.  A token's text is determined   *)
(* by its fields, so two tokens are the same text exactly when equal.      *)
(***************************************************************************)
\* longest block string explored, in tokens
MaxTokens == 2

\* the media types of process_block's patterns, in the order they are applied
MediaTypes == <<"image", "pdf", "video", "link">>

\* plain text
T_text == [kind |-> "text", alt |-> <<>>, shape |-> "none",
           id |-> <<>>, ext |-> <<>>, url |-> <<>>]

\* a span around a legacy URL that carries an identifier and an extension
Legacy(kind, alt, id, ext) ==
    [kind |-> kind, alt |-> alt, shape |-> "legacy", id |-> id, ext |-> ext,
     url |-> <<>>]

\* a span around a firebasestorage ... .enc URL without the imgs%2Fapp%2F path
T_imgNoId == [kind |-> "image", alt |-> <<"d">>, shape |-> "firebase_other",
              id |-> <<>>, ext |-> <<>>, url |-> <<>>]

\* a span around a URL that is not a firebasestorage URL
T_linkForeign == [kind |-> "link", alt |-> <<>>, shape |-> "foreign",
                  id |-> <<>>, ext |-> <<>>, url |-> <<>>]

T_imgAbc == Legacy("image", <<"d">>, <<"a", "b", "c">>, <<".", "p", "n", "g">>)
T_linkAbc == Legacy("link", <<>>, <<"a", "b", "c">>, <<".", "p", "n", "g">>)
T_pdfXyz == Legacy("pdf", <<>>, <<"x", "y", "z">>, <<".", "p", "d", "f">>)
T_videoQ == Legacy("video", <<>>, <<"q">>, <<".", "p", "n", "g">>)

Tokens == {T_text, T_imgAbc, T_linkAbc, T_pdfXyz, T_videoQ, T_imgNoId, T_linkForeign}

\* process_block, lines 386-394: does the pattern of media_type match the span
PatternMatches(tok, media_type) ==
    tok.kind = media_type /\ tok.shape \in {"legacy", "firebase_other"}

\* a variant of ExtractsId that finds an identifier in every matched URL
ExtractsId_Always(tok) == TRUE

\* extract_firebase_id, lines 371-376: does the URL yield an identifier
ExtractsId(tok) == tok.shape = "legacy"

\* process_block, lines 417-426: the replacement text, same wrapper, new URL
NewText(tok, replacement_url) ==
    [kind |-> tok.kind, alt |-> tok.alt, shape |-> "new", id |-> <<>>,
     ext |-> <<>>, url |-> replacement_url]

\* process_block, line 428: block['string'].replace(match.group(0), new_text)
ReplaceSpan(string, span, new_text) ==
    [i \in 1..Len(string) |-> IF string[i] = span THEN new_text ELSE string[i]]

\* re.finditer(pattern, original) for the four patterns in turn
RECURSIVE MatchesFrom(_, _)
MatchesFrom(orig, k) ==
    IF k > Len(MediaTypes) THEN <<>>
    ELSE SelectSeq(orig, LAMBDA t : PatternMatches(t, MediaTypes[k]))
            \o MatchesFrom(orig, k + 1)

\* process_block, lines 395-432: the body of the loops for one match
ProcessMatch(acc, tok, mapping_, progress_, cache) ==
    IF ~ExtractsId(tok) THEN acc
    ELSE LET replacement_url == ResolveUrl(tok.id, tok.ext, mapping_, progress_, cache)
         IN IF replacement_url # NoUrl
            THEN [acc EXCEPT
                    !.string = ReplaceSpan(@, tok, NewText(tok, replacement_url)),
                    !.links_updated = @ + 1,
                    !.modified = TRUE]
            ELSE [acc EXCEPT !.links_not_found = @ + 1]

RECURSIVE ProcessMatches(_, _, _, _, _)
ProcessMatches(acc, matches, mapping_, progress_, cache) ==
    IF matches = <<>> THEN acc
    ELSE ProcessMatches(ProcessMatch(acc, Head(matches), mapping_, progress_, cache),
                        Tail(matches), mapping_, progress_, cache)

\* process_block, lines 382-432: the string of one block
ProcessString(string, mapping_, progress_, cache) ==
    ProcessMatches([string |-> string, links_updated |-> 0, links_not_found |-> 0,
                    modified |-> FALSE],
                   MatchesFrom(string, 1), mapping_, progress_, cache)

\* a page or a block of the tree; children are positions in the node table
Node(is_page, has_string, string, children) ==
    [is_page |-> is_page, has_string |-> has_string, string |-> string,
     children |-> children]

\* the pages of the document (the top-level list of the JSON)
Pages == <<1, 2>>

\* the document tree: page 1 holds block 3 (with child 4) and block 5, which
\* has no string and one child, block 7; page 2 holds block 6
Document(s3, s4) ==
    << Node(TRUE, FALSE, <<>>, <<3, 5>>),
       Node(TRUE, FALSE, <<>>, <<6>>),
       Node(FALSE, TRUE, s3, <<4>>),
       Node(FALSE, TRUE, s4, <<>>),
       Node(FALSE, FALSE, <<>>, <<7>>),
       Node(FALSE, TRUE, <<T_text>>, <<>>),
       Node(FALSE, TRUE, <<T_pdfXyz>>, <<>>) >>

Strings == UNION {[1..k -> Tokens] : k \in 0..MaxTokens}

Documents ==
    {Document(s3, s4) : s3 \in Strings,
                        s4 \in {<<T_imgAbc>>, <<T_videoQ>>, <<T_text>>}}

\* what became of each file when process_files ran: uploaded in this run,
\* skipped because an earlier run uploaded it, or failed
Outcomes ==
    {o \in [1..2 -> {"now", "before", "failed"}] : \E i \in 1..2 : o[i] # "failed"}

RECURSIVE MappingAfter(_, _, _, _)
MappingAfter(listing, o, keep, clean) ==
    IF listing = <<>> THEN EmptyMap
    ELSE LET n == Len(listing)
             rest == MappingAfter(SubSeq(listing, 1, n - 1), o, keep, clean)
             t == TargetName(listing[n], keep, clean)
         IN IF o[n] = "now"
            THEN RecordMapping(rest, listing[n], t, PublicUrlOf(t))
            ELSE rest

RECURSIVE UploadedAfter(_, _, _, _)
UploadedAfter(listing, o, keep, clean) ==
    IF listing = <<>> THEN EmptyLedger
    ELSE LET n == Len(listing)
             rest == UploadedAfter(SubSeq(listing, 1, n - 1), o, keep, clean)
         IN IF o[n] # "failed"
            THEN MarkUploaded(rest, listing[n], TargetName(listing[n], keep, clean))
            ELSE rest

CountOutcome(o, what) == Cardinality({i \in DOMAIN o : o[i] = what})

\* the state in which run (line 521) calls update_roam_json, after
\* process_files handled the listing with outcomes o, and the JSON is loaded
InitRewrite ==
    \E o \in Outcomes, doc \in Documents :
        /\ files = <<F_abc, F_xyz1>>
        /\ batchSize = 1
        /\ keepNames = FALSE
        /\ cleanNames = TRUE
        /\ mapping = MappingAfter(files, o, keepNames, cleanNames)
        /\ progress = WithMapping(UploadedAfter(files, o, keepNames, cleanNames),
                                  mapping)
        /\ disk = WrittenFile(progress)
        /\ store = {<<f, progress.uploaded_files[f]>> : f \in DOMAIN progress.uploaded_files}
        /\ local_files_cache = build_file_cache(files)
        /\ stats = [total_files |-> 2, uploaded |-> CountOutcome(o, "now"),
                    skipped |-> CountOutcome(o, "before"),
                    failed |-> CountOutcome(o, "failed")]
        /\ idx = 2
        /\ attempt = 0
        /\ target_name = <<>>
        /\ pc = "rewrite"
        /\ loaded = [f \in {files[i] : i \in {j \in 1..2 : o[j] = "before"}} |->
                        progress.uploaded_files[f]]
        /\ putsThisFile = 0
        /\ putFiles = {files[i] : i \in {j \in 1..2 : o[j] # "before"}}
        /\ handled = [f \in {files[i] : i \in 1..2} |-> 1]
        /\ saveLog = {j \in 1..2 : o[j] # "before"}
        /\ resolved = NoRef
        /\ data = doc
        /\ original = doc
        /\ walk = <<>>
        /\ page = 0
        /\ page_modified = FALSE
        /\ pages_modified = 0
        /\ links = ZeroLinks
        /\ visits = [n \in 1..Len(doc) |-> 0]
        /\ local_file = NoFile

\* update_roam_json, lines 444-451: the loop enters the next page
EnterPage ==
    /\ pc = "rewrite"
    /\ page < Len(Pages)
    /\ page' = page + 1
    /\ page_modified' = FALSE
    /\ walk' = data[Pages[page + 1]].children
    /\ pc' = "blocks"
    /\ UNCHANGED << config, uploader, data, original, pages_modified, links, visits,
                    local_file >>

\* a variant of ChildCalls that recurses only from a block that has a string
ChildCalls_OnlyWithString(block) ==
    IF block.has_string THEN block.children ELSE <<>>

\* process_block, lines 434-438: the recursive calls a block makes, in order
ChildCalls(block) == block.children

\* process_block, lines 378-440, on the next block in depth-first order: its
\* string is rewritten, its children are processed next, in order
ProcessBlock ==
    /\ pc = "blocks"
    /\ walk # <<>>
    /\ LET n == Head(walk)
           r == ProcessString(data[n].string, mapping, progress, local_files_cache)
       IN /\ IF data[n].has_string
             THEN /\ data' = [data EXCEPT ![n].string = r.string]
                  /\ links' = [links_updated |-> links.links_updated + r.links_updated,
                               links_not_found |-> links.links_not_found
                                                      + r.links_not_found]
                  /\ page_modified' = (page_modified \/ r.modified)
             ELSE UNCHANGED << data, links, page_modified >>
          /\ walk' = ChildCalls(data[n]) \o Tail(walk)
          /\ visits' = [visits EXCEPT ![n] = @ + 1]
    /\ UNCHANGED << config, uploader, original, page, pages_modified, pc,
                    local_file >>

\* update_roam_json, lines 454-455: the page's blocks are done
LeavePage ==
    /\ pc = "blocks"
    /\ walk = <<>>
    /\ pages_modified' = IF page_modified THEN pages_modified + 1 ELSE pages_modified
    /\ pc' = "rewrite"
    /\ UNCHANGED << config, uploader, data, original, walk, page, page_modified,
                    links, visits, local_file >>

\* update_roam_json, lines 457-466: the updated JSON is written
SaveDocument ==
    /\ pc = "rewrite"
    /\ page = Len(Pages)
    /\ pc' = "rewritten"
    /\ UNCHANGED << config, uploader, rewriter >>

NextRewrite ==
    \/ EnterPage
    \/ ProcessBlock
    \/ LeavePage
    \/ SaveDocument

SpecRewrite == InitRewrite /\ [][NextRewrite]_vars

(***************************************************************************)
(* The filename matcher on its own: find_file_for_firebase_id over         *)
(* directory listings with name collisions, numbered copies and upper-case *)
(* extensions                                                              *)
(***************************************************************************)
\* the longest directory listing the matcher is run against
MaxMatchFiles == 3

F_abcPdf == <<"a", "b", "c", ".", "p", "d", "f">>
F_abc12 == <<"a", "b", "c", "-", "1", "2", ".", "p", "n", "g">>
F_abcdUpper == <<"a", "b", "c", "d", ".", "P", "N", "G">>

MatchUniverse == {F_abc, F_abcImage, F_xyz1, F_abcPdf, F_abc12, F_abcdUpper}

MatchLists ==
    {s \in UNION {[1..n -> MatchUniverse] : n \in 1..MaxMatchFiles} : IsInjective(s)}

\* (identifier, extension) pairs extract_firebase_id hands to the matcher
MatchRefs ==
    Refs \cup { <<<<"a", "b", "c">>, <<".", "P", "N", "G">>>>,
                <<<<"a", "b", "c">>, <<".", "p", "d", "f">>>>,
                <<<<"A", "B", "C">>, <<".", "p", "n", "g">>>>,
                <<<<"a", "b">>, <<".", "p", "n", "g">>>> }

\* the state in which update_roam_json runs in a resumed run that found every
\* file of the listing in the ledger: self.mapping is empty, so every
\* reference goes through find_file_for_firebase_id
InitMatch ==
    /\ files \in MatchLists
    /\ batchSize = 1
    /\ keepNames = TRUE
    /\ cleanNames = TRUE
    /\ mapping = EmptyMap
    /\ progress = [uploaded_files |->
                      [f \in {files[i] : i \in 1..Len(files)} |->
                          TargetName(f, keepNames, cleanNames)],
                   mapping |-> EmptyMap]
    /\ disk = WrittenFile(progress)
    /\ store = {<<f, progress.uploaded_files[f]>> : f \in DOMAIN progress.uploaded_files}
    /\ local_files_cache = build_file_cache(files)
    /\ stats = [total_files |-> Len(files), uploaded |-> 0,
                skipped |-> Len(files), failed |-> 0]
    /\ idx = Len(files)
    /\ attempt = 0
    /\ target_name = <<>>
    /\ pc = "rewrite"
    /\ loaded = progress.uploaded_files
    /\ putsThisFile = 0
    /\ putFiles = {}
    /\ handled = [f \in {files[i] : i \in 1..Len(files)} |-> 1]
    /\ saveLog = {}
    /\ resolved = NoRef
    /\ data = <<>>
    /\ original = <<>>
    /\ walk = <<>>
    /\ page = 0
    /\ page_modified = FALSE
    /\ pages_modified = 0
    /\ links = ZeroLinks
    /\ visits = <<>>
    /\ local_file = NoFile

\* process_block, lines 404-414, for a reference whose identifier is not a
\* key of self.mapping: the matcher is called and its result looked up in
\* uploaded_files
FindFile ==
    /\ pc = "rewrite"
    /\ \E r \in MatchRefs :
          /\ r[1] \notin DOMAIN mapping
          /\ local_file' = find_file_for_firebase_id(local_files_cache, r[1], r[2])
          /\ resolved' = [id |-> r[1], ext |-> r[2], done |-> TRUE,
                          url |-> ResolveUrl(r[1], r[2], mapping, progress,
                                             local_files_cache)]
    /\ UNCHANGED << config, disk, store, progress, mapping, local_files_cache, stats,
                    idx, attempt, target_name, pc, loaded, putsThisFile, putFiles,
                    handled, saveLog, data, original, walk, page, page_modified,
                    pages_modified, links, visits >>

NextMatch == FindFile

SpecMatch == InitMatch /\ [][NextMatch]_vars

(***************************************************************************)
(* Runs over a folder whose file names differ only in a character that     *)
(* clean_filename rewrites                                                 *)
(***************************************************************************)
F_aSpaceB == <<"a", " ", "b", ".", "p", "n", "g">>
F_aUnderB == <<"a", "_", "b", ".", "p", "n", "g">>

ClashUniverse == {F_aSpaceB, F_aUnderB}

ClashLists ==
    {s \in UNION {[1..n -> ClashUniverse] : n \in 1..MaxFiles} : IsInjective(s)}

\* the state after construction, as in Init, for these folders
InitClash ==
    /\ files \in ClashLists
    /\ batchSize \in 1..MaxBatch
    /\ \E p \in Policies : keepNames = p[1] /\ cleanNames = p[2]
    /\ disk = [st |-> "absent", ledger |-> EmptyLedger]
    /\ store = {}
    /\ progress = EmptyLedger
    /\ mapping = EmptyMap
    /\ local_files_cache = <<>>
    /\ stats = ZeroStats
    /\ idx = 0
    /\ attempt = 0
    /\ target_name = <<>>
    /\ pc = "start"
    /\ loaded = EmptyMap
    /\ putsThisFile = 0
    /\ putFiles = {}
    /\ handled = [f \in {} |-> 0]
    /\ saveLog = {}
    /\ resolved = NoRef
    /\ data = <<>>
    /\ original = <<>>
    /\ walk = <<>>
    /\ page = 0
    /\ page_modified = FALSE
    /\ pages_modified = 0
    /\ links = ZeroLinks
    /\ visits = <<>>
    /\ local_file = NoFile

SpecClash == InitClash /\ [][Next]_vars

(***************************************************************************)
(* Properties of the upload coordinator and the ledger                     *)
(***************************************************************************)
\* positions of the listing this run has finished handling
HandledPositions == IF pc = "upload" THEN 1..(idx - 1) ELSE 1..idx

\* files whose upload this run recorded
UploadedThisRun ==
    {f \in DOMAIN progress.uploaded_files : f \notin DOMAIN loaded}

\* files recorded in memory and absent from the ledger on durable storage
Unsaved ==
    {f \in DOMAIN progress.uploaded_files : f \notin DOMAIN disk.ledger.uploaded_files}

RunOver == pc \in {"rewrite", "done"}

\* C1: a run issues no put for a file recorded in the uploadedFiles of the
\* ledger it loaded; when the loaded ledger records every file, the run ends
\* with zero files uploaded and every file counted as skipped.
C1_Idempotence ==
    /\ \A f \in DOMAIN loaded : f \notin putFiles
    /\ (RunOver /\ \A i \in 1..Len(files) : files[i] \in DOMAIN loaded)
          => /\ stats.uploaded = 0
             /\ stats.skipped = Len(files)
             /\ putFiles = {}

\* a second run over a fully uploaded listing of MaxFiles files has ended
C1_Witness ==
    /\ pc = "done"
    /\ Len(files) = 3
    /\ \A i \in 1..Len(files) : files[i] \in DOMAIN loaded
    /\ stats.skipped = 3

\* C2: the ledger is saved after every position that is a multiple of
\* batchSize, whatever the outcome of the file at that position, and the save
\* holds every upload recorded so far.
C2_CheckpointSchedule ==
    pc = "loop" =>
        /\ saveLog = {i \in 1..idx : i % batchSize = 0}
        /\ (idx > 0 /\ idx % batchSize = 0)
              => disk.ledger.uploaded_files = progress.uploaded_files

\* C3: for every file uploaded in this run, the mapping holds records with
\* the same publicUrl under the file's full stem and under its stem without
\* "-image".
C3_KeysAgree ==
    \A f \in UploadedThisRun :
        (pc \in {"loop", "rewrite", "done"}) =>
            /\ Stem(f) \in DOMAIN mapping
            /\ BaseId(f) \in DOMAIN mapping
            /\ mapping[Stem(f)].public_url = mapping[BaseId(f)].public_url

\* C4: at most MAX_RETRIES puts per file, none after a success; a file is
\* given up only after MAX_RETRIES failed puts (or an unreadable file); a
\* failed file is counted in failed and recorded neither in uploadedFiles nor
\* in the mapping; the loop goes on, so every file is handled exactly once.
C4_BoundedRetry ==
    /\ putsThisFile <= MAX_RETRIES
    /\ pc = "upload" => /\ files[idx] \notin DOMAIN progress.uploaded_files
                        /\ putsThisFile = attempt
                        /\ putsThisFile < MAX_RETRIES
    /\ (pc = "checkpoint" /\ files[idx] \notin DOMAIN progress.uploaded_files)
          => putsThisFile \in {0, MAX_RETRIES}
    /\ pc \in {"loop", "checkpoint", "saving", "finalsaving", "rewrite", "done"} =>
          /\ stats.failed = Cardinality({i \in 1..idx :
                                files[i] \notin DOMAIN progress.uploaded_files})
          /\ stats.uploaded + stats.skipped + stats.failed = idx
    /\ \A k \in DOMAIN mapping :
          mapping[k].original_name \in DOMAIN progress.uploaded_files
    /\ \A f \in DOMAIN handled : handled[f] = 1
    /\ RunOver => /\ idx = Len(files)
                  /\ \A i \in 1..Len(files) : Count(handled, files[i]) = 1

\* a file failed after MAX_RETRIES puts and a later file was then uploaded
C4_Witness ==
    /\ pc = "checkpoint"
    /\ stats.failed >= 1
    /\ idx >= 2
    /\ files[idx - 1] \notin DOMAIN progress.uploaded_files
    /\ files[idx] \in UploadedThisRun
    /\ putsThisFile = MAX_RETRIES

\* is local file f one the reference (id, ext) identifies: by one of the two
\* mapping keys of f, or as the file the matcher returns
Identifies(id, ext, f) ==
    \/ id \in {Stem(f), BaseId(f)}
    \/ f = find_file_for_firebase_id(local_files_cache, id, ext)

\* C5: a reference whose identifier is a key of the mapping resolves to that
\* record's publicUrl; otherwise it resolves only through the file the
\* matcher returns, when uploadedFiles records it; a resolved reference is
\* replaced by publicBase + "/" + targetName for a targetName that
\* uploadedFiles records (and the object store holds) for a local file the
\* reference identifies.
C5_ResolvedUrl ==
    resolved.done =>
        /\ resolved.id \in DOMAIN mapping =>
              resolved.url = mapping[resolved.id].public_url
        /\ (resolved.id \notin DOMAIN mapping /\ resolved.url # NoUrl) =>
              LET f == find_file_for_firebase_id(local_files_cache,
                                                 resolved.id, resolved.ext)
              IN /\ f \in DOMAIN progress.uploaded_files
                 /\ resolved.url = PublicBase \o <<"/">> \o progress.uploaded_files[f]
        /\ resolved.url # NoUrl =>
              \E f \in DOMAIN progress.uploaded_files :
                 /\ Identifies(resolved.id, resolved.ext, f)
                 /\ resolved.url = PublicBase \o <<"/">> \o progress.uploaded_files[f]
                 /\ <<f, progress.uploaded_files[f]>> \in store
        /\ resolved.url = NoUrl =>
              /\ resolved.id \notin DOMAIN mapping
              /\ \A f \in DOMAIN progress.uploaded_files :
                    f # find_file_for_firebase_id(local_files_cache,
                                                  resolved.id, resolved.ext)

\* a reference was resolved through the matcher and uploadedFiles, to a
\* target name that differs from the file's name
C5_Witness ==
    /\ resolved.done
    /\ resolved.url # NoUrl
    /\ resolved.id \notin DOMAIN mapping
    /\ \E f \in DOMAIN progress.uploaded_files :
          /\ resolved.url = PublicBase \o <<"/">> \o progress.uploaded_files[f]
          /\ progress.uploaded_files[f] # f

\* C8: once the process has stopped, the progress file is absent or holds a
\* complete ledger, also when it stopped in the middle of save_progress.
C8_AtomicSave ==
    pc \in {"interrupted", "crashed", "done"} => disk.st \in {"absent", "complete"}

\* C9: between two iterations of the upload loop, fewer than batchSize
\* uploads are recorded in memory and missing from the persisted ledger.
C9_BoundedLoss ==
    pc = "loop" => Cardinality(Unsaved) <= batchSize - 1

\* C10: an entry uploadedFiles[originalName] = targetName, in memory or in
\* the persisted ledger, exists only if a put of that file under targetName
\* succeeded; a file whose upload failed or is still being attempted is not
\* marked.
C10_LedgerInvariant ==
    /\ \A f \in DOMAIN progress.uploaded_files :
          <<f, progress.uploaded_files[f]>> \in store
    /\ \A f \in DOMAIN disk.ledger.uploaded_files :
          <<f, disk.ledger.uploaded_files[f]>> \in store
    /\ pc = "upload" => files[idx] \notin DOMAIN progress.uploaded_files

\* the persisted ledger marks a file under a hashed target name while
\* another file of the run failed and is not marked
C10_Witness ==
    /\ pc = "done"
    /\ stats.failed >= 1
    /\ \E f \in DOMAIN disk.ledger.uploaded_files :
          disk.ledger.uploaded_files[f] # f
    /\ \E i \in 1..Len(files) : files[i] \notin DOMAIN disk.ledger.uploaded_files

(***************************************************************************)
(* Properties of the target-name policy                                    *)
(***************************************************************************)
\* the disallowed set: space, parentheses, brackets, comma, semicolon,
\* ampersand, hash
Disallowed == {" ", "(", ")", "[", "]", ",", ";", "&", "#"}

HasDisallowed(s) == \E i \in 1..Len(s) : s[i] \in Disallowed

\* C7: with KEEP_ORIGINAL_NAMES (and CLEAN_FILENAMES), the target name is
\* the original name when it has no disallowed character; otherwise it is a
\* cleaned name whose stem has no disallowed character and whose extension
\* is the original one.
C7_TargetNamePolicy ==
    (pc = "upload" /\ keepNames /\ cleanNames) =>
        IF HasDisallowed(files[idx])
        THEN /\ ~HasDisallowed(Stem(target_name))
             /\ Suffix(target_name) = Suffix(files[idx])
        ELSE target_name = files[idx]

\* C13: whenever the progress file holds a complete ledger, after any
\* sequence of runs and interruptions, its mapping holds an upload record
\* for every file listed in its uploaded_files, so that no later save drops
\* the record an earlier run wrote.
C13_MappingSurvives ==
    disk.st = "complete" =>
        \A f \in DOMAIN disk.ledger.uploaded_files :
            \E k \in DOMAIN disk.ledger.mapping :
                disk.ledger.mapping[k].original_name = f

\* C14: within a run, two distinct local files are never uploaded under the
\* same target name, whichever naming policy is configured: the target
\* names recorded for the files this run uploaded are pairwise distinct.
C14_NoOverwrite ==
    \A f, g \in UploadedThisRun :
        f # g => progress.uploaded_files[f] # progress.uploaded_files[g]

(***************************************************************************)
(* Properties of the document rewriter                                     *)
(***************************************************************************)
\* a span the rewriter has to count: a reference whose URL has the legacy shape
IsRecognized(tok) == tok.kind \in {"image", "pdf", "video", "link"} /\ tok.shape = "legacy"

\* the URL the reference of a span resolves to, NoUrl when it does not
UrlFor(tok) == ResolveUrl(tok.id, tok.ext, mapping, progress, local_files_cache)

\* positions (node, index) of the loaded document that hold a given sort of span
Spans(Test(_)) ==
    {<<n, i>> \in (1..Len(original)) \X (1..MaxTokens + 1) :
        /\ original[n].has_string
        /\ i <= Len(original[n].string)
        /\ Test(original[n].string[i])}

\* C6: when the rewrite is over, every recognized reference that resolves
\* has become the same wrapper (kind, alt text) around the resolved URL and
\* every other span is unchanged; linksUpdated counts the recognized
\* references that resolve and linksNotFound those that do not, one each.
C6_CountedOnce ==
    pc = "rewritten" =>
        /\ \A n \in 1..Len(original) :
              /\ Len(data[n].string) = Len(original[n].string)
              /\ \A i \in 1..Len(original[n].string) :
                    LET tok == original[n].string[i]
                    IN IF original[n].has_string /\ IsRecognized(tok)
                          /\ UrlFor(tok) # NoUrl
                       THEN data[n].string[i] =
                               [kind |-> tok.kind, alt |-> tok.alt, shape |-> "new",
                                id |-> <<>>, ext |-> <<>>, url |-> UrlFor(tok)]
                       ELSE data[n].string[i] = tok
        /\ links.links_updated =
              Cardinality(Spans(LAMBDA t : IsRecognized(t) /\ UrlFor(t) # NoUrl))
        /\ links.links_not_found =
              Cardinality(Spans(LAMBDA t : IsRecognized(t) /\ UrlFor(t) = NoUrl))

\* a rewrite is over in which a block held the same resolved reference twice,
\* another block held an unresolved one, and both counters moved
C6_Witness ==
    /\ pc = "rewritten"
    /\ original[3].string = <<T_imgAbc, T_imgAbc>>
    /\ original[4].string = <<T_videoQ>>
    /\ links.links_updated = 3
    /\ links.links_not_found = 1

\* the nodes below node n of the loaded tree: its children, theirs, and so on
RECURSIVE Descendants(_)
Descendants(n) ==
    LET kids == {original[n].children[i] : i \in 1..Len(original[n].children)}
    IN kids \cup UNION {Descendants(k) : k \in kids}

\* the blocks reachable from the pages through children
ReachableBlocks == UNION {Descendants(Pages[p]) : p \in 1..Len(Pages)}

\* the block's text holds a recognized reference that resolves to a URL
HoldsResolvedReference(n) ==
    /\ original[n].has_string
    /\ \E i \in 1..Len(original[n].string) :
          IsRecognized(original[n].string[i]) /\ UrlFor(original[n].string[i]) # NoUrl

\* the rewrite changed the text of the block
TextChanged(n) == data[n].string # original[n].string

\* C12: when the rewrite is over, process_block has run exactly once on
\* every block reachable from a page through children; the tree has the same
\* pages and blocks, every block its child list in the same order, and the
\* text of every block with no resolved reference is what it was; and the
\* number of pages counted as modified is the number of pages with at least
\* one modified descendant block.
C12_RewriteFrame ==
    pc = "rewritten" =>
        /\ \A n \in 1..Len(original) :
              visits[n] = IF n \in ReachableBlocks THEN 1 ELSE 0
        /\ Len(data) = Len(original)
        /\ \A n \in 1..Len(original) :
              /\ data[n].is_page = original[n].is_page
              /\ data[n].has_string = original[n].has_string
              /\ data[n].children = original[n].children
              /\ ~HoldsResolvedReference(n) => data[n].string = original[n].string
        /\ pages_modified =
              Cardinality({p \in 1..Len(Pages) :
                              \E n \in Descendants(Pages[p]) : TextChanged(n)})

\* a rewrite is over in which the only text that changed is that of block
\* 7, the child of a block without text, beside a block with an unresolved
\* reference; one page of the two is counted
C12_Witness ==
    /\ pc = "rewritten"
    /\ visits[7] = 1
    /\ TextChanged(7)
    /\ original[4].string = <<T_videoQ>>
    /\ \A n \in 1..Len(original) : n # 7 => ~TextChanged(n)
    /\ pages_modified = 1

(***************************************************************************)
(* Properties of the filename matcher                                      *)
(***************************************************************************)
\* the files the cache holds
CachedFiles == {local_files_cache[i].path : i \in 1..Len(local_files_cache)}

\* the file's actual extension equals the requested one, case-insensitively
HasExtension(f, extension) == Lower(Suffix(f)) = Lower(extension)

\* the file's name is identifier-<digits><extension>, case-insensitively
IsNumberedCopy(f, firebase_id, extension) ==
    \E d \in 1..Len(f) :
        /\ Len(f) = Len(firebase_id) + 1 + d + Len(extension)
        /\ Lower(SubSeq(f, 1, Len(firebase_id))) = Lower(firebase_id)
        /\ f[Len(firebase_id) + 1] = "-"
        /\ \A i \in 1..d : IsDigit(f[Len(firebase_id) + 1 + i])
        /\ Lower(SubSeq(f, Len(f) - Len(extension) + 1, Len(f))) = Lower(extension)

\* the four cache keys of the first layer, in the order they are tried
LayerOneKeys(firebase_id, extension) ==
    << firebase_id,
       firebase_id \o <<"-", "i", "m", "a", "g", "e">>,
       firebase_id \o extension,
       firebase_id \o <<"-", "i", "m", "a", "g", "e">> \o extension >>

\* C11: the matcher resolves in layers and the first hit wins: the file of
\* the first of the keys identifier, identifier-image, identifier+extension,
\* identifier-image+extension that is cached with the requested extension;
\* else a cached file named identifier-<digits><extension>; else a cached
\* file whose name starts with the identifier and has the requested
\* extension; else nothing.  Extensions compare case-insensitively, and a
\* returned file always has the requested extension.
C11_LayeredMatch ==
    resolved.done =>
        LET id == resolved.id
            ext == resolved.ext
            keys == LayerOneKeys(id, ext)
            Accepted(k) == /\ CacheHas(local_files_cache, keys[k])
                           /\ HasExtension(CacheGet(local_files_cache, keys[k]), ext)
            numbered == {f \in CachedFiles : IsNumberedCopy(f, id, ext)}
            starting == {f \in CachedFiles : StartsWith(f, id) /\ HasExtension(f, ext)}
        IN /\ local_file # NoFile => HasExtension(local_file, ext)
           /\ IF \E k \in 1..4 : Accepted(k)
              THEN \E k \in 1..4 :
                      /\ Accepted(k)
                      /\ \A j \in 1..(k - 1) : ~Accepted(j)
                      /\ local_file = CacheGet(local_files_cache, keys[k])
              ELSE IF numbered # {} THEN local_file \in numbered
              ELSE IF starting # {} THEN local_file \in starting
              ELSE local_file = NoFile

\* a lookup whose first key is cached under another extension, so that the
\* numbered copy is returned, its extension differing in case from the
\* requested one
C11_Witness ==
    /\ resolved.done
    /\ CacheHas(local_files_cache, resolved.id)
    /\ ~HasExtension(CacheGet(local_files_cache, resolved.id), resolved.ext)
    /\ local_file # NoFile
    /\ IsNumberedCopy(local_file, resolved.id, resolved.ext)
    /\ Suffix(local_file) # resolved.ext

====
